---------------------------- MODULE Spec2Model ----------------------------
(***************************************************************************)
(* A model of pydpkg.dpkg.Dpkg: the Debian version comparison functions    *)
(* (split_full_version, listify, dstringcmp, compare_revision_strings,     *)
(* compare_versions) and the control-message extraction pipeline           *)
(* (_process_dpkg_file and the functions it calls).                        *)
(*                                                                         *)
(* A Python str is modelled as a sequence of one-character strings, so     *)
(* "1.0~" is <<"1", ".", "0", "~">>.  A call's outcome is a record: either *)
(* a returned value (kind "ok") or the class of the exception it raised.   *)
(***************************************************************************)
EXTENDS Integers, Sequences, FiniteSets, TLC

(***************************************************************************)
(* Characters.  The version grammar uses [A-Za-z0-9.+~-] and ":"; the      *)
(* model keeps the digits, a handful of letters and every punctuation      *)
(* character of the grammar.                                               *)
(***************************************************************************)
Digits == {"0", "1", "2", "3", "4", "5", "6", "7", "8", "9"}

Letters == {"a", "b", "c", "r"}

Punct == {"+", "-", ".", ":", "~"}

Chars == Digits \cup Letters \cup Punct

\* str.isdigit() on one character
isdigit(c) == c \in Digits

\* str.isalpha() on one character
isalpha(c) == c \in Letters

\* ord() on one character (ASCII)
ord(c) ==
    CASE c = "+" -> 43 [] c = "-" -> 45 [] c = "." -> 46
      [] c = "0" -> 48 [] c = "1" -> 49 [] c = "2" -> 50 [] c = "3" -> 51
      [] c = "4" -> 52 [] c = "5" -> 53 [] c = "6" -> 54 [] c = "7" -> 55
      [] c = "8" -> 56 [] c = "9" -> 57 [] c = ":" -> 58
      [] c = "a" -> 97 [] c = "b" -> 98 [] c = "c" -> 99 [] c = "r" -> 114
      [] c = "~" -> 126

\* the value of one decimal digit
digit_value(c) == ord(c) - 48

(***************************************************************************)
(* Outcomes of a call.                                                     *)
(***************************************************************************)
Ok(v) == [kind |-> "ok", val |-> v]

Raise(cls) == [kind |-> cls, val |-> 0]

\* s[from:] in Python, with 1-based first position `from`
Tail_from(s, from) == SubSeq(s, from, Len(s))

\* the least element of a non-empty set of positions
Least(S) == CHOOSE i \in S : \A j \in S : i <= j

\* the greatest element of a non-empty set of positions
Greatest(S) == CHOOSE i \in S : \A j \in S : i >= j

\* int() of a run of decimal digits (unbounded integers: no overflow)
RECURSIVE digits_to_int(_)
digits_to_int(s) ==
    IF s = <<>> THEN 0
    ELSE 10 * digits_to_int(SubSeq(s, 1, Len(s) - 1)) + digit_value(s[Len(s)])

\* int(text) on text over Chars: an optional sign followed by one or more
\* digits, else ValueError
py_int(s) ==
    LET signed == s # <<>> /\ s[1] \in {"+", "-"}
        body   == IF signed THEN Tail(s) ELSE s
    IN  IF body = <<>> \/ \E i \in 1..Len(body) : ~isdigit(body[i])
        THEN Raise("ValueError")
        ELSE IF signed /\ s[1] = "-" THEN Ok(0 - digits_to_int(body))
             ELSE Ok(digits_to_int(body))

(***************************************************************************)
(* Splitting a version string.                                             *)
(***************************************************************************)
\* get_epoch with the slice starting at the colon instead of after it
get_epoch_keeps_colon(version_str) ==
    LET colons == {i \in 1..Len(version_str) : version_str[i] = ":"}
    IN  IF colons = {} THEN Ok(<<0, version_str>>)
        ELSE LET e_index == Least(colons)
                 epoch   == py_int(SubSeq(version_str, 1, e_index - 1))
             IN  IF epoch.kind # "ok" THEN Raise("DpkgVersionError")
                 ELSE Ok(<<epoch.val, Tail_from(version_str, e_index)>>)

\* Dpkg.get_epoch: (epoch, version); epoch is zero if there is no colon
get_epoch(version_str) ==
    LET colons == {i \in 1..Len(version_str) : version_str[i] = ":"}
    IN  IF colons = {} THEN Ok(<<0, version_str>>)
        ELSE LET e_index == Least(colons)
                 epoch   == py_int(SubSeq(version_str, 1, e_index - 1))
             IN  IF epoch.kind # "ok" THEN Raise("DpkgVersionError")
                 ELSE Ok(<<epoch.val, Tail_from(version_str, e_index + 1)>>)

\* get_upstream with index("-") in place of rindex("-")
get_upstream_first_hyphen(version_str) ==
    LET hyphens == {i \in 1..Len(version_str) : version_str[i] = "-"}
    IN  IF hyphens = {} THEN <<version_str, <<"0">> >>
        ELSE LET d_index == Least(hyphens)
             IN  <<SubSeq(version_str, 1, d_index - 1),
                   Tail_from(version_str, d_index + 1)>>

\* Dpkg.get_upstream: (upstream, debian revision), the revision "0" if absent
get_upstream(version_str) ==
    LET hyphens == {i \in 1..Len(version_str) : version_str[i] = "-"}
    IN  IF hyphens = {} THEN <<version_str, <<"0">> >>
        ELSE LET d_index == Greatest(hyphens)
             IN  <<SubSeq(version_str, 1, d_index - 1),
                   Tail_from(version_str, d_index + 1)>>

\* Dpkg.split_full_version: (epoch, upstream, revision) or DpkgVersionError
split_full_version(version_str) ==
    LET e == get_epoch(version_str)
    IN  IF e.kind # "ok" THEN e
        ELSE LET u == get_upstream(e.val[2])
             IN  Ok(<<e.val[1], u[1], u[2]>>)

(***************************************************************************)
(* Tokens of a revision string.                                            *)
(***************************************************************************)
StrTok(s) == [type |-> "str", s |-> s, n |-> 0]

IntTok(n) == [type |-> "int", s |-> <<>>, n |-> n]

\* Dpkg.get_alphas: (leading non-digits, remains)
get_alphas(revision_str) ==
    LET digits == {i \in 1..Len(revision_str) : isdigit(revision_str[i])}
    IN  IF digits = {} THEN <<revision_str, <<>> >>
        ELSE LET i == Least(digits)
             IN  <<SubSeq(revision_str, 1, i - 1), Tail_from(revision_str, i)>>

\* get_digits with the remains starting one character too late
get_digits_drops_char(revision_str) ==
    LET others == {i \in 1..Len(revision_str) : ~isdigit(revision_str[i])}
    IN  IF revision_str = <<>> THEN <<0, <<>> >>
        ELSE IF others = {} THEN <<digits_to_int(revision_str), <<>> >>
        ELSE LET i == Least(others)
             IN  IF i = 1 THEN <<0, revision_str>>
                 ELSE <<digits_to_int(SubSeq(revision_str, 1, i - 1)),
                        Tail_from(revision_str, i + 1)>>

\* Dpkg.get_digits: (leading integer, remains); 0 when there are no digits
get_digits(revision_str) ==
    LET others == {i \in 1..Len(revision_str) : ~isdigit(revision_str[i])}
    IN  IF revision_str = <<>> THEN <<0, <<>> >>
        ELSE IF others = {} THEN <<digits_to_int(revision_str), <<>> >>
        ELSE LET i == Least(others)
             IN  IF i = 1 THEN <<0, revision_str>>
                 ELSE <<digits_to_int(SubSeq(revision_str, 1, i - 1)),
                        Tail_from(revision_str, i)>>

\* listify without the empty str in front of a leading run of digits
RECURSIVE listify_no_pad(_)
listify_no_pad(revision_str) ==
    IF revision_str = <<>> THEN <<>>
    ELSE LET a == get_alphas(revision_str)
             d == get_digits(a[2])
         IN  (IF a[1] = <<>> THEN <<IntTok(d[1])>>
              ELSE <<StrTok(a[1]), IntTok(d[1])>>) \o listify_no_pad(d[2])

\* Dpkg.listify: the while loop, one (str, int) pair per iteration
RECURSIVE listify(_)
listify(revision_str) ==
    IF revision_str = <<>> THEN <<>>
    ELSE LET a == get_alphas(revision_str)
             d == get_digits(a[2])
         IN  <<StrTok(a[1]), IntTok(d[1])>> \o listify(d[2])

(***************************************************************************)
(* Comparison.                                                             *)
(***************************************************************************)
\* _tilde_case of dstringcmp, on the extra character of the longer string
dstringcmp_tilde_case(longer) == IF longer = "~" THEN -1 ELSE 1

\* the character step without its "non-letter against letter" branch
dstringcmp_chars_one_sided(char_a, char_b) ==
    IF char_a = char_b THEN 0
    ELSE IF char_a = "~" THEN -1
    ELSE IF char_b = "~" THEN 1
    ELSE IF isalpha(char_a) /\ ~isalpha(char_b) THEN -1
    ELSE IF ord(char_a) > ord(char_b) THEN 1
    ELSE IF ord(char_a) < ord(char_b) THEN -1
    ELSE 0

\* one step of the dstringcmp loop on two characters that are both present:
\* -1 or 1 to return, 0 to go on to the next pair
dstringcmp_chars(char_a, char_b) ==
    IF char_a = char_b THEN 0
    ELSE IF char_a = "~" THEN -1
    ELSE IF char_b = "~" THEN 1
    ELSE IF isalpha(char_a) /\ ~isalpha(char_b) THEN -1
    ELSE IF ~isalpha(char_a) /\ isalpha(char_b) THEN 1
    ELSE IF ord(char_a) > ord(char_b) THEN 1
    ELSE IF ord(char_a) < ord(char_b) THEN -1
    ELSE 0

\* the zip_longest loop of dstringcmp from position i on
RECURSIVE dstringcmp_loop(_, _, _)
dstringcmp_loop(a, b, i) ==
    IF i > Len(a) /\ i > Len(b) THEN Raise("DpkgVersionError")
    ELSE IF i > Len(b) THEN Ok(dstringcmp_tilde_case(a[i]))
    ELSE IF i > Len(a)
         THEN Ok(IF dstringcmp_tilde_case(b[i]) = 1 THEN -1 ELSE 1)
    ELSE LET cmp == dstringcmp_chars(a[i], b[i])
         IN  IF cmp = 0 THEN dstringcmp_loop(a, b, i + 1) ELSE Ok(cmp)

\* Dpkg.dstringcmp
dstringcmp(a, b) == IF a = b THEN Ok(0) ELSE dstringcmp_loop(a, b, 1)

\* the token-level _tilde_case without its tilde branch
revision_tilde_case_no_tilde(elem) ==
    IF elem.type = "str"
    THEN IF elem.s = <<>> THEN Raise("IndexError") ELSE Ok(1)
    ELSE Raise("DpkgVersionError")

\* _tilde_case of compare_revision_strings, on the extra token of the longer
\* list: elem[0] of an empty str raises IndexError
revision_tilde_case(elem) ==
    IF elem.type = "str"
    THEN IF elem.s = <<>> THEN Raise("IndexError")
         ELSE IF elem.s[1] = "~" THEN Ok(-1) ELSE Ok(1)
    ELSE Raise("DpkgVersionError")

\* _numeric_case with >= for >
numeric_case_no_equal(i1, i2) == IF i1 >= i2 THEN 1 ELSE -1

\* _numeric_case of compare_revision_strings
numeric_case(i1, i2) == IF i1 > i2 THEN 1 ELSE IF i1 < i2 THEN -1 ELSE 0

\* the zip_longest loop of compare_revision_strings from position i on
RECURSIVE revision_loop(_, _, _)
revision_loop(list1, list2, i) ==
    IF i > Len(list1) /\ i > Len(list2) THEN Raise("DpkgVersionError")
    ELSE IF i > Len(list2) THEN revision_tilde_case(list1[i])
    ELSE IF i > Len(list1)
         THEN LET t == revision_tilde_case(list2[i])
              IN  IF t.kind # "ok" THEN t
                  ELSE Ok(IF t.val = 1 THEN -1 ELSE 1)
    ELSE LET cmp == IF list1[i].type = "int" /\ list2[i].type = "int"
                    THEN Ok(numeric_case(list1[i].n, list2[i].n))
                    ELSE IF list1[i].type = "str" /\ list2[i].type = "str"
                    THEN dstringcmp(list1[i].s, list2[i].s)
                    ELSE Raise("DpkgVersionError")
         IN  IF cmp.kind # "ok" THEN cmp
             ELSE IF cmp.val = 0 THEN revision_loop(list1, list2, i + 1)
             ELSE cmp

\* Dpkg.compare_revision_strings
compare_revision_strings(rev1, rev2) ==
    IF rev1 = rev2 THEN Ok(0)
    ELSE LET list1 == listify(rev1)
             list2 == listify(rev2)
         IN  IF list1 = list2 THEN Ok(0)
             ELSE revision_loop(list1, list2, 1)

\* compare_versions without the comparison of the epochs
compare_versions_no_epoch(ver1, ver2) ==
    IF ver1 = ver2 THEN Ok(0)
    ELSE LET s1 == split_full_version(ver1)
             s2 == split_full_version(ver2)
         IN  IF s1.kind # "ok" THEN s1
             ELSE IF s2.kind # "ok" THEN s2
             ELSE LET upstr_res == compare_revision_strings(s1.val[2], s2.val[2])
                  IN  IF upstr_res.kind # "ok" \/ upstr_res.val # 0
                      THEN upstr_res
                      ELSE compare_revision_strings(s1.val[3], s2.val[3])

\* compare_versions without the ver1 == ver2 test at its head
compare_versions_no_shortcut(ver1, ver2) ==
    LET s1 == split_full_version(ver1)
        s2 == split_full_version(ver2)
    IN  IF s1.kind # "ok" THEN s1
        ELSE IF s2.kind # "ok" THEN s2
        ELSE IF s1.val[1] < s2.val[1] THEN Ok(-1)
        ELSE IF s1.val[1] > s2.val[1] THEN Ok(1)
        ELSE LET upstr_res == compare_revision_strings(s1.val[2], s2.val[2])
             IN  IF upstr_res.kind # "ok" \/ upstr_res.val # 0
                 THEN upstr_res
                 ELSE compare_revision_strings(s1.val[3], s2.val[3])

\* Dpkg.compare_versions
compare_versions(ver1, ver2) ==
    IF ver1 = ver2 THEN Ok(0)
    ELSE LET s1 == split_full_version(ver1)
             s2 == split_full_version(ver2)
         IN  IF s1.kind # "ok" THEN s1
             ELSE IF s2.kind # "ok" THEN s2
             ELSE IF s1.val[1] < s2.val[1] THEN Ok(-1)
             ELSE IF s1.val[1] > s2.val[1] THEN Ok(1)
             ELSE LET upstr_res == compare_revision_strings(s1.val[2], s2.val[2])
                  IN  IF upstr_res.kind # "ok" \/ upstr_res.val # 0
                      THEN upstr_res
                      ELSE compare_revision_strings(s1.val[3], s2.val[3])

(***************************************************************************)
(* Inputs.  FlatStrings(A, n) is every string over A of length at most n.  *)
(***************************************************************************)
RECURSIVE FlatStrings(_, _)
FlatStrings(A, n) ==
    IF n = 0 THEN {<<>>}
    ELSE LET shorter == FlatStrings(A, n - 1)
         IN  shorter \cup {Append(s, c) : s \in shorter, c \in A}

\* longest enumerated string of a comparison
MaxLen == 2

\* longest enumerated string of a three-way comparison
MaxSortLen == 1

\* longest enumerated string of a split
MaxSplitLen == 4

CmpAlphabet == {"0", "1", "a", "~", ".", ":", "-"}

SortAlphabet == {"0", "1", "a", "~", ".", "-"}

SplitAlphabet == {"0", "1", "a", "~", ":", "-", "+"}

\* the version strings the documentation and the tests of the ordering name
V_1c1d0 == <<"1", ":", "1", ".", "0">>

V_2d0 == <<"2", ".", "0">>

V_1d0trc1 == <<"1", ".", "0", "~", "r", "c", "1">>

V_1d0 == <<"1", ".", "0">>

V_1d0tt == <<"1", ".", "0", "~", "~">>

V_1d0t == <<"1", ".", "0", "~">>

V_1d0a == <<"1", ".", "0", "a">>

V_1d0d == <<"1", ".", "0", ".">>

V_2c1d2d3h4 == <<"2", ":", "1", ".", "2", ".", "3", "-", "4">>

V_1d2d3 == <<"1", ".", "2", ".", "3">>

V_ac1d0 == <<"a", ":", "1", ".", "0">>

V_0c1d0 == <<"0", ":", "1", ".", "0">>

V_1d0h1 == <<"1", ".", "0", "-", "1">>

V_1d0h0 == <<"1", ".", "0", "-", "0">>

V_1c1d0h1 == <<"1", ":", "1", ".", "0", "-", "1">>

V_p1c1 == <<"+", "1", ":", "1">>

V_m1c1 == <<"-", "1", ":", "1">>

V_01c1 == <<"0", "1", ":", "1">>

V_1c1 == <<"1", ":", "1">>

V_1h1 == <<"1", "-", "1">>

V_1h2 == <<"1", "-", "2">>

V_1a == <<"1", "a">>

V_1b == <<"1", "b">>

V_1t == <<"1", "~">>

V_1h1t == <<"1", "-", "1", "~">>

V_10 == <<"1", "0">>

V_9 == <<"9">>

V_01 == <<"0", "1">>

V_b == <<"b">>

Samples ==
    {V_1c1d0, V_2d0, V_1d0trc1, V_1d0, V_1d0tt, V_1d0t, V_1d0a, V_1d0d,
     V_2c1d2d3h4, V_1d2d3, V_ac1d0, V_0c1d0, V_1d0h1, V_1d0h0, V_1c1d0h1,
     V_p1c1, V_m1c1, V_1a, V_1b, V_10, V_9}

SortSamples ==
    {V_1c1d0, V_2d0, V_1d0trc1, V_1d0, V_1d0tt, V_1d0t, V_1d0a, V_1d0d,
     V_0c1d0, V_1d0h1, V_1d0h0, V_1c1, V_1h1, V_1h2, V_1a, V_1b, V_1t,
     V_1h1t, V_10, V_9, V_01, V_b}

SplitSamples == {V_2c1d2d3h4, V_1d2d3, V_ac1d0, V_0c1d0, V_1c1d0h1, V_01c1}

Versions == FlatStrings(CmpAlphabet, MaxLen) \cup Samples

SortVersions == FlatStrings(SortAlphabet, MaxSortLen) \cup SortSamples

SplitVersions == FlatStrings(SplitAlphabet, MaxSplitLen) \cup SplitSamples

NoResult == [kind |-> "none", val |-> 0]

(***************************************************************************)
(* The control-message extraction.  A .deb file is described by what the   *)
(* pipeline finds in it: the layer that is malformed (fault), the control  *)
(* archives among the ar members, the tar's control entry and the header   *)
(* names of the control file.  Header values play no part in the checks    *)
(* of _process_dpkg_file and are left out.                                 *)
(***************************************************************************)
\* REQUIRED_HEADERS
REQUIRED_HEADERS == <<"package", "version", "architecture">>

HeaderNames == {"Package", "Version", "version", "Architecture", "Description"}

\* str.lower on a header name
lower(name) ==
    CASE name = "Package" -> "package"
      [] name = "Version" -> "version"
      [] name = "version" -> "version"
      [] name = "Architecture" -> "architecture"
      [] name = "Description" -> "description"

\* "ar": no ar global header; "headers": a malformed ar member header;
\* "stream": the compressed stream does not decompress; "tar": not a tar
Faults == {"none", "ar", "headers", "stream", "tar"}

ArchiveTypes == {"gz", "xz", "zst"}

\* "file": a regular file named control; "undecodable": one whose bytes are
\* not UTF-8; "notfile": a member named control that extractfile() gives None
\* for; "absent": no member named control
ControlEntries == {"file", "undecodable", "notfile", "absent"}

Debs ==
    [fault : Faults, members : SUBSET ArchiveTypes,
     control : ControlEntries, headers : SUBSET HeaderNames]

IdleDeb ==
    [fault |-> "none", members |-> {}, control |-> "absent", headers |-> {}]

RaiseWith(cls, detail) == [kind |-> cls, val |-> detail]

NoException == [kind |-> "none", val |-> 0]

\* None, for a message
NoMessage == [kind |-> "none", val |-> 0]

(***************************************************************************)
(* State.  ver1..ver3, pc, result: the arguments of the version call in    *)
(* hand, the operation applied to them and its outcome.  deb,              *)
(* ignore_missing, _message: the Dpkg object; xpc, open, ctype, message,   *)
(* req, exc: the position, open handles and locals of the extraction in    *)
(* progress; returned: what the last access of Dpkg.message gave.          *)
(***************************************************************************)
VARIABLES ver1, ver2, ver3, pc, result,
          deb, ignore_missing, _message, xpc, open, ctype, message, req, exc,
          returned

version_vars == <<ver1, ver2, ver3, pc, result>>

dpkg_vars ==
    <<deb, ignore_missing, _message, xpc, open, ctype, message, req, exc,
      returned>>

vars == <<version_vars, dpkg_vars>>

\* no Dpkg object in play
NoDpkg ==
    /\ deb = IdleDeb
    /\ ignore_missing = FALSE
    /\ _message = NoMessage
    /\ xpc = "none"
    /\ open = {}
    /\ ctype = "none"
    /\ message = NoMessage
    /\ req = 1
    /\ exc = NoException
    /\ returned = NoResult

\* no version call in play
NoVersions ==
    /\ ver1 = <<>>
    /\ ver2 = <<>>
    /\ ver3 = <<>>
    /\ pc = "none"
    /\ result = NoResult

\* a caller with two version strings
InitCompare ==
    /\ ver1 \in Versions
    /\ ver2 \in Versions
    /\ ver3 = <<>>
    /\ pc = "ready"
    /\ result = NoResult
    /\ NoDpkg

\* a caller sorting three version strings
InitSort ==
    /\ ver1 \in SortVersions
    /\ ver2 \in SortVersions
    /\ ver3 \in SortVersions
    /\ pc = "ready"
    /\ result = NoResult
    /\ NoDpkg

\* a caller with one version string
InitSplit ==
    /\ ver1 \in SplitVersions
    /\ ver2 = <<>>
    /\ ver3 = <<>>
    /\ pc = "ready"
    /\ result = NoResult
    /\ NoDpkg

\* Dpkg.__init__ on a .deb file
InitDpkg ==
    /\ deb \in Debs
    /\ ignore_missing \in BOOLEAN
    /\ _message = NoMessage
    /\ xpc = "idle"
    /\ open = {}
    /\ ctype = "none"
    /\ message = NoMessage
    /\ req = 1
    /\ exc = NoException
    /\ returned = NoResult
    /\ NoVersions

\* Dpkg.compare_versions(ver1, ver2)
CompareVersions ==
    /\ pc = "ready"
    /\ result' = compare_versions(ver1, ver2)
    /\ pc' = "compare_versions"
    /\ UNCHANGED <<ver1, ver2, ver3, dpkg_vars>>

\* Dpkg.compare_revision_strings(ver1, ver2)
CompareRevisionStrings ==
    /\ pc = "ready"
    /\ result' = compare_revision_strings(ver1, ver2)
    /\ pc' = "compare_revision_strings"
    /\ UNCHANGED <<ver1, ver2, ver3, dpkg_vars>>

\* sorted(..., key=Dpkg.compare_versions_key) on three versions: cmp_to_key
\* hands pairs to compare_versions; the outcomes of (1,2), (2,3) and (1,3)
CompareVersionsKey ==
    /\ pc = "ready"
    /\ result' = <<compare_versions(ver1, ver2), compare_versions(ver2, ver3),
                   compare_versions(ver1, ver3)>>
    /\ pc' = "compare_versions_key"
    /\ UNCHANGED <<ver1, ver2, ver3, dpkg_vars>>

\* Dpkg.split_full_version(ver1)
SplitFullVersion ==
    /\ pc = "ready"
    /\ result' = split_full_version(ver1)
    /\ pc' = "split_full_version"
    /\ UNCHANGED <<ver1, ver2, ver3, dpkg_vars>>

\* Dpkg.listify(ver1)
Listify ==
    /\ pc = "ready"
    /\ result' = Ok(listify(ver1))
    /\ pc' = "listify"
    /\ UNCHANGED <<ver1, ver2, ver3, dpkg_vars>>

(***************************************************************************)
(* Dpkg.message and _process_dpkg_file, one action per statement that      *)
(* opens, reads or closes something.  A `with` block's exit is the action  *)
(* that closes its handle; it runs whether the block ended normally or     *)
(* with an exception pending in exc.                                       *)
(***************************************************************************)
\* Dpkg.message: the cached message, or a fresh _process_dpkg_file
Message ==
    /\ xpc \in {"idle", "returned", "raised"}
    /\ IF _message # NoMessage
       THEN /\ returned' = Ok(_message.val)
            /\ xpc' = "returned"
            /\ UNCHANGED <<ctype, message, req, exc>>
       ELSE /\ xpc' = "open_ar"
            /\ ctype' = "none"
            /\ message' = NoMessage
            /\ req' = 1
            /\ exc' = NoException
            /\ returned' = NoResult
    /\ UNCHANGED <<deb, ignore_missing, _message, open, version_vars>>

\* with Archive(filename) as archive: arpy rejects a file without the ar
\* global header in the constructor, before the block is entered and before
\* _process_dpkg_file holds an archive
OpenArchive ==
    /\ xpc = "open_ar"
    /\ IF deb.fault = "ar"
       THEN /\ exc' = Raise("ArchiveFormatError")
            /\ xpc' = "raise"
            /\ UNCHANGED open
       ELSE /\ open' = open \cup {"ar"}
            /\ xpc' = "read_archive"
            /\ UNCHANGED exc
    /\ UNCHANGED <<deb, ignore_missing, _message, ctype, message, req,
                   returned, version_vars>>

\* the type _read_archive settles on: gz before xz before zst
control_archive_type(members) ==
    IF "gz" \in members THEN "gz"
    ELSE IF "xz" \in members THEN "xz"
    ELSE IF "zst" \in members THEN "zst"
    ELSE "none"

\* Dpkg._read_archive
ReadArchive ==
    /\ xpc = "read_archive"
    /\ IF deb.fault = "headers"
       THEN /\ exc' = Raise("ArchiveFormatError")
            /\ xpc' = "exit_ar"
            /\ UNCHANGED ctype
       ELSE IF control_archive_type(deb.members) = "none"
       THEN /\ exc' = Raise("DpkgMissingControlGzipFile")
            /\ xpc' = "exit_ar"
            /\ UNCHANGED ctype
       ELSE /\ ctype' = control_archive_type(deb.members)
            /\ xpc' = "open_stream"
            /\ UNCHANGED exc
    /\ UNCHANGED <<deb, ignore_missing, _message, open, message, req,
                   returned, version_vars>>

\* _extract_message_from_archive: with GzipFile(...) / lzma.open(...) /
\* zst.stream_reader(...): the decompression stream is opened, nothing read
OpenStream ==
    /\ xpc = "open_stream"
    /\ ctype \in ArchiveTypes
    /\ open' = open \cup {"stream"}
    /\ xpc' = "read_stream"
    /\ UNCHANGED <<deb, ignore_missing, _message, ctype, message, req, exc,
                   returned, version_vars>>

\* _extract_message_from_tar: fd.read() decompresses the whole member
ReadStream ==
    /\ xpc = "read_stream"
    /\ IF deb.fault = "stream"
       THEN /\ exc' = Raise("DecompressionError")
            /\ xpc' = "exit_stream"
       ELSE /\ xpc' = "open_tar"
            /\ UNCHANGED exc
    /\ UNCHANGED <<deb, ignore_missing, _message, open, ctype, message, req,
                   returned, version_vars>>

\* _extract_message_from_tar: with tarfile.open(fileobj=...) as ctar
OpenTar ==
    /\ xpc = "open_tar"
    /\ IF deb.fault = "tar"
       THEN /\ exc' = Raise("ReadError")
            /\ xpc' = "exit_stream"
            /\ UNCHANGED open
       ELSE /\ open' = open \cup {"tar"}
            /\ xpc' = "extract_message"
            /\ UNCHANGED exc
    /\ UNCHANGED <<deb, ignore_missing, _message, ctype, message, req,
                   returned, version_vars>>

\* _extract_message that leaves _process_dpkg_file at once when it raises,
\* as code without the `with` blocks would
ExtractMessageNoUnwind ==
    /\ xpc = "extract_message"
    /\ IF deb.control = "file"
       THEN /\ message' = Ok(deb.headers)
            /\ xpc' = "exit_tar"
            /\ UNCHANGED exc
       ELSE /\ exc' = IF deb.control = "undecodable"
                      THEN Raise("UnicodeDecodeError")
                      ELSE Raise("DpkgMissingControlFile")
            /\ xpc' = "raise"
            /\ UNCHANGED message
    /\ UNCHANGED <<deb, ignore_missing, _message, open, ctype, req,
                   returned, version_vars>>

\* Dpkg._extract_message
ExtractMessage ==
    /\ xpc = "extract_message"
    /\ IF deb.control = "file"
       THEN /\ message' = Ok(deb.headers)
            /\ UNCHANGED exc
       ELSE /\ exc' = IF deb.control = "undecodable"
                      THEN Raise("UnicodeDecodeError")
                      ELSE Raise("DpkgMissingControlFile")
            /\ UNCHANGED message
    /\ xpc' = "exit_tar"
    /\ UNCHANGED <<deb, ignore_missing, _message, open, ctype, req,
                   returned, version_vars>>

\* the end of `with tarfile.open(...) as ctar`
ExitTar ==
    /\ xpc = "exit_tar"
    /\ open' = open \ {"tar"}
    /\ xpc' = "exit_stream"
    /\ UNCHANGED <<deb, ignore_missing, _message, ctype, message, req, exc,
                   returned, version_vars>>

\* the end of `with GzipFile(...)`, `with lzma.open(...)` or
\* `with zst.stream_reader(...)`
ExitStream ==
    /\ xpc = "exit_stream"
    /\ open' = open \ {"stream"}
    /\ xpc' = "exit_ar"
    /\ UNCHANGED <<deb, ignore_missing, _message, ctype, message, req, exc,
                   returned, version_vars>>

\* the end of `with Archive(filename) as archive`
ExitArchive ==
    /\ xpc = "exit_ar"
    /\ open' = open \ {"ar"}
    /\ xpc' = IF exc # NoException THEN "raise" ELSE "validate"
    /\ req' = 1
    /\ UNCHANGED <<deb, ignore_missing, _message, ctype, message, exc,
                   returned, version_vars>>

\* message.keys() as they are stored
stored_keys(msg) == msg

\* list(map(str.lower, message.keys()))
lowered_keys(msg) == {lower(name) : name \in msg}

\* one iteration of `for req in REQUIRED_HEADERS`, or the end of the loop
CheckHeader ==
    /\ xpc = "validate"
    /\ IF req > Len(REQUIRED_HEADERS)
       THEN /\ xpc' = "coerce"
            /\ UNCHANGED <<req, exc>>
       ELSE IF REQUIRED_HEADERS[req] \notin lowered_keys(message.val)
               /\ ~ignore_missing
       THEN /\ exc' = RaiseWith("DpkgMissingRequiredHeaderError",
                                REQUIRED_HEADERS[req])
            /\ xpc' = "raise"
            /\ UNCHANGED req
       ELSE /\ req' = req + 1
            /\ UNCHANGED <<xpc, exc>>
    /\ UNCHANGED <<deb, ignore_missing, _message, open, ctype, message,
                   returned, version_vars>>

\* the replace_header loop; header values are not modelled, the names stay
CoerceHeaders ==
    /\ xpc = "coerce"
    /\ xpc' = "return"
    /\ UNCHANGED <<deb, ignore_missing, _message, open, ctype, message, req,
                   exc, returned, version_vars>>

\* _process_dpkg_file returns; Dpkg.message stores the message and returns it
Return ==
    /\ xpc = "return"
    /\ _message' = message
    /\ returned' = Ok(message.val)
    /\ xpc' = "returned"
    /\ UNCHANGED <<deb, ignore_missing, open, ctype, message, req, exc,
                   version_vars>>

\* the exception leaves _process_dpkg_file and Dpkg.message: nothing is stored
Propagate ==
    /\ xpc = "raise"
    /\ returned' = exc
    /\ xpc' = "raised"
    /\ UNCHANGED <<deb, ignore_missing, _message, open, ctype, message, req,
                   exc, version_vars>>

NextCompare == CompareVersions \/ CompareRevisionStrings

NextSort == CompareVersionsKey

NextSplit == SplitFullVersion \/ Listify

NextDpkg ==
    \/ Message
    \/ OpenArchive
    \/ ReadArchive
    \/ OpenStream
    \/ ReadStream
    \/ OpenTar
    \/ ExtractMessage
    \/ ExitTar
    \/ ExitStream
    \/ ExitArchive
    \/ CheckHeader
    \/ CoerceHeaders
    \/ Return
    \/ Propagate

\* comparisons of two version strings
Spec == InitCompare /\ [][NextCompare]_vars

\* comparisons among three version strings
SpecSort == InitSort /\ [][NextSort]_vars

\* decomposition of one version string
SpecSplit == InitSplit /\ [][NextSplit]_vars

\* accesses of Dpkg.message on one .deb file
SpecDpkg == InitDpkg /\ [][NextDpkg]_vars

(***************************************************************************)
(* Properties of the comparison (Spec, SpecSort).                          *)
(***************************************************************************)
\* C1: antisymmetry.  Whenever compare_versions(ver1, ver2) returns a value,
\* compare_versions(ver2, ver1) returns its negation.
Antisymmetry ==
    (pc = "compare_versions" /\ result.kind = "ok")
        => compare_versions(ver2, ver1) = Ok(0 - result.val)

\* "1.0" against "1.0~rc1" returns 1, and the swapped call returns -1
AntisymmetryWitness ==
    /\ pc = "compare_versions"
    /\ ver1 = V_1d0 /\ ver2 = V_1d0trc1
    /\ result = Ok(1)
    /\ compare_versions(ver2, ver1) = Ok(-1)

\* C2: transitivity.  When the three comparisons of (1,2), (2,3) and (1,3)
\* return values, the first two being <= 0 makes the third <= 0.
Transitivity ==
    (/\ pc = "compare_versions_key"
     /\ result[1].kind = "ok" /\ result[2].kind = "ok" /\ result[3].kind = "ok"
     /\ result[1].val <= 0 /\ result[2].val <= 0)
        => result[3].val <= 0

\* the strict chain "1.0~" < "1.0" < "1.0a"
TransitivityWitness ==
    /\ pc = "compare_versions_key"
    /\ ver1 = V_1d0t /\ ver2 = V_1d0 /\ ver3 = V_1d0a
    /\ result = <<Ok(-1), Ok(-1), Ok(-1)>>

Sign(n) == IF n > 0 THEN 1 ELSE IF n < 0 THEN -1 ELSE 0

\* C3: component precedence.  For distinct versions with integer epochs the
\* result is the sign of the epoch difference when the epochs differ;
\* with equal epochs it is the outcome of comparing the upstream versions
\* when that is not 0, otherwise the outcome of comparing the debian
\* revisions; it is 0 only when all three components compare equal.  compare_versions("1:1.0", "2.0")
\* is 1.
ComponentPrecedence ==
    (/\ pc = "compare_versions"
     /\ ver1 # ver2
     /\ split_full_version(ver1).kind = "ok"
     /\ split_full_version(ver2).kind = "ok")
        => LET s1 == split_full_version(ver1).val
               s2 == split_full_version(ver2).val
               upstream == compare_revision_strings(s1[2], s2[2])
               debian   == compare_revision_strings(s1[3], s2[3])
           IN  /\ s1[1] # s2[1] => result = Ok(Sign(s1[1] - s2[1]))
               /\ (s1[1] = s2[1] /\ upstream # Ok(0)) => result = upstream
               /\ (s1[1] = s2[1] /\ upstream = Ok(0)) => result = debian
               /\ result = Ok(0)
                      => (s1[1] = s2[1] /\ upstream = Ok(0) /\ debian = Ok(0))
               /\ (ver1 = V_1c1d0 /\ ver2 = V_2d0) => result = Ok(1)

\* "1:1.0" against "2.0": the epoch decides although the upstream is smaller
ComponentPrecedenceWitness ==
    /\ pc = "compare_versions"
    /\ ver1 = V_1c1d0 /\ ver2 = V_2d0
    /\ compare_revision_strings(split_full_version(ver1).val[2],
                                split_full_version(ver2).val[2]) = Ok(-1)
    /\ result = Ok(1)

\* ver1 is ver2 followed by a string that starts with "~"
TildeExtension(longer, shorter) ==
    /\ Len(longer) > Len(shorter)
    /\ SubSeq(longer, 1, Len(shorter)) = shorter
    /\ longer[Len(shorter) + 1] = "~"

\* C4: tilde rule.  A revision string extended by a string that starts with
\* "~" compares below the unextended string; compare_versions("1.0~rc1",
\* "1.0") and compare_versions("1.0~~", "1.0~") are -1.
TildeRule ==
    /\ (pc = "compare_revision_strings" /\ TildeExtension(ver1, ver2))
           => result = Ok(-1)
    /\ (pc = "compare_versions" /\ ver1 = V_1d0trc1 /\ ver2 = V_1d0)
           => result = Ok(-1)
    /\ (pc = "compare_versions" /\ ver1 = V_1d0tt /\ ver2 = V_1d0t)
           => result = Ok(-1)

\* the extension is a trailing extra token: "1.0~rc1" against "1.0"
TildeRuleWitness ==
    /\ pc = "compare_revision_strings"
    /\ TildeExtension(ver1, ver2)
    /\ Len(listify(ver1)) > Len(listify(ver2))
    /\ ver2 # <<>>
    /\ result = Ok(-1)

\* C6: totality.  compare_versions returns -1, 0 or 1 or fails with the
\* declared version error, and with nothing else.
Totality ==
    pc = "compare_versions"
        => \/ result \in {Ok(-1), Ok(0), Ok(1)}
           \/ result = Raise("DpkgVersionError")

\* C8: reflexivity with short-circuit.  compare_versions(v, v) is 0 for
\* every string v, also for one that split_full_version rejects.
Reflexivity ==
    (pc = "compare_versions" /\ ver1 = ver2) => result = Ok(0)

\* a string with a non-integer epoch prefix compared with itself
ReflexivityWitness ==
    /\ pc = "compare_versions"
    /\ ver1 = ver2
    /\ split_full_version(ver1) = Raise("DpkgVersionError")
    /\ result = Ok(0)

(***************************************************************************)
(* Properties of the decomposition (SpecSplit).                            *)
(***************************************************************************)
HasChar(s, c) == \E i \in 1..Len(s) : s[i] = c

\* (upstream, revision) is the split of remainder at its last "-"
SplitsAtLastHyphen(remainder, upstream, revision) ==
    IF HasChar(remainder, "-")
    THEN remainder = upstream \o <<"-">> \o revision /\ ~HasChar(revision, "-")
    ELSE upstream = remainder /\ revision = <<"0">>

\* C5: split_full_version.  Without ":" the epoch is 0 and the remainder is
\* the whole string; otherwise the text before the first ":" must be an
\* integer, the epoch, or the call fails with the version error, and the
\* remainder is the text after that ":".  The remainder splits at its last
\* "-" into upstream and revision, the revision "0" without a "-".
SplitContract ==
    pc = "split_full_version" =>
        /\ IF ~HasChar(ver1, ":")
           THEN /\ result.kind = "ok"
                /\ result.val[1] = 0
                /\ SplitsAtLastHyphen(ver1, result.val[2], result.val[3])
           ELSE \E k \in 1..Len(ver1) :
                  /\ ver1[k] = ":"
                  /\ ~HasChar(SubSeq(ver1, 1, k - 1), ":")
                  /\ LET prefix == py_int(SubSeq(ver1, 1, k - 1))
                     IN  IF prefix.kind = "ok"
                         THEN /\ result.kind = "ok"
                              /\ result.val[1] = prefix.val
                              /\ SplitsAtLastHyphen(Tail_from(ver1, k + 1),
                                                    result.val[2], result.val[3])
                         ELSE result = Raise("DpkgVersionError")
        /\ ver1 = V_2c1d2d3h4
               => result = Ok(<<2, <<"1", ".", "2", ".", "3">>, <<"4">> >>)
        /\ ver1 = V_1d2d3 => result = Ok(<<0, V_1d2d3, <<"0">> >>)
        /\ ver1 = V_ac1d0 => result = Raise("DpkgVersionError")

\* an epoch, and an upstream version that keeps an earlier "-"
SplitContractWitness ==
    /\ pc = "split_full_version"
    /\ result.kind = "ok"
    /\ result.val[1] = 1
    /\ HasChar(result.val[2], "-")

\* str() of a non-negative integer
RECURSIVE int_to_str(_)
int_to_str(n) ==
    LET digit == CHOOSE c \in Digits : digit_value(c) = n % 10
    IN  IF n < 10 THEN <<digit>> ELSE Append(int_to_str(n \div 10), digit)

\* the text after the first ":" of v, or v when it has none
Remainder(v) ==
    IF HasChar(v, ":")
    THEN Tail_from(v, Least({i \in 1..Len(v) : v[i] = ":"}) + 1)
    ELSE v

\* the text before the first ":" of v
EpochText(v) == SubSeq(v, 1, Least({i \in 1..Len(v) : v[i] = ":"}) - 1)

\* the version string put together again from its decomposition
Rebuild(v, split) ==
    (IF split[1] > 0 THEN Append(int_to_str(split[1]), ":") ELSE <<>>)
        \o split[2]
        \o (IF HasChar(Remainder(v), "-") THEN <<"-">> \o split[3] ELSE <<>>)

\* C9 as stated: every version string that splits equals its rebuild.
RoundTrip ==
    (pc = "split_full_version" /\ result.kind = "ok")
        => ver1 = Rebuild(ver1, result.val)

\* C9, amended: a version string that splits, and that has no ":" or whose
\* text before the first ":" is the decimal numeral of its positive epoch,
\* equals its rebuild.
RoundTripCanonicalEpoch ==
    (/\ pc = "split_full_version"
     /\ result.kind = "ok"
     /\ \/ ~HasChar(ver1, ":")
        \/ result.val[1] > 0 /\ EpochText(ver1) = int_to_str(result.val[1]))
        => ver1 = Rebuild(ver1, result.val)

\* "1:1.0-1" splits into (1, "1.0", "1") and is rebuilt from them
RoundTripWitness ==
    /\ pc = "split_full_version"
    /\ ver1 = V_1c1d0h1
    /\ result = Ok(<<1, V_1d0, <<"1">> >>)
    /\ Rebuild(ver1, result.val) = ver1

(***************************************************************************)
(* Properties of the extraction (SpecDpkg).                                *)
(***************************************************************************)
\* the control message of the file can be extracted
Extractable(d) ==
    /\ d.fault = "none"
    /\ d.members # {}
    /\ d.control = "file"

\* the required headers the control file lacks, compared in lower case
Absent(d) ==
    {i \in 1..Len(REQUIRED_HEADERS) :
        \A name \in d.headers : lower(name) # REQUIRED_HEADERS[i]}

\* C7: required-header validation.  Once the control message is extracted,
\* a required header (package, version, architecture, looked up in lower
\* case, in that order) that is absent makes the access fail, when tolerance
\* is off, with the missing-required-header error naming the first absent
\* one, and nothing is returned or cached; with tolerance on, or with no
\* header absent, the access returns the message as it is, so without the
\* absent keys, and caches it.
RequiredHeaders ==
    (xpc \in {"returned", "raised"} /\ Extractable(deb)) =>
        IF Absent(deb) # {} /\ ~ignore_missing
        THEN /\ xpc = "raised"
             /\ returned = RaiseWith("DpkgMissingRequiredHeaderError",
                                     REQUIRED_HEADERS[Least(Absent(deb))])
             /\ _message = NoMessage
        ELSE /\ xpc = "returned"
             /\ returned = Ok(deb.headers)
             /\ _message = Ok(deb.headers)

\* version and architecture are both absent, tolerance is off: the error
\* names version, and nothing is cached
RequiredHeadersWitness ==
    /\ xpc = "raised"
    /\ ~ignore_missing
    /\ Absent(deb) = {2, 3}
    /\ "Package" \in deb.headers
    /\ returned = RaiseWith("DpkgMissingRequiredHeaderError", "version")
    /\ _message = NoMessage

\* C10: scoped release.  When the access of the message has returned or
\* raised, no handle (ar archive, decompression stream, tar archive) is
\* open; and the headers are validated only with the ar archive closed.
ScopedRelease ==
    /\ xpc \in {"returned", "raised"} => open = {}
    /\ xpc \in {"validate", "coerce", "return"} => "ar" \notin open

\* the control file is missing from the tar: all three handles were open
\* when the error was raised, and none is when it leaves the call
ScopedReleaseWitness ==
    /\ xpc = "raised"
    /\ returned = Raise("DpkgMissingControlFile")
    /\ open = {}

(***************************************************************************)
(* Properties of listify (Spec, SpecSplit).                                *)
(***************************************************************************)
\* an even number of tokens, str at the odd positions and int at the even
Alternates(tokens) ==
    /\ Len(tokens) % 2 = 0
    /\ \A i \in 1..Len(tokens) :
          tokens[i].type = (IF i % 2 = 1 THEN "str" ELSE "int")

\* one iteration of listify's loop on a non-empty string leaves a shorter one
LoopShortens(revision_str) ==
    revision_str # <<>>
        => Len(get_digits(get_alphas(revision_str)[2])[2]) < Len(revision_str)

\* every suffix of the string is shortened by an iteration of the loop
Terminates(revision_str) ==
    \A i \in 1..Len(revision_str) : LoopShortens(Tail_from(revision_str, i))

\* the first token of a string that starts with a digit is the empty str
EmptyFirstSlot(revision_str) ==
    (revision_str # <<>> /\ isdigit(revision_str[1]))
        => listify(revision_str)[1] = StrTok(<<>>)

\* C11: listify shape.  For the two strings a revision comparison listifies,
\* the loop of listify terminates and gives an even number of tokens that
\* alternate str, int, ..., starting with a str that is empty when the
\* string starts with a digit; so wherever both lists have a token the two
\* tokens have the same type, and the comparison does not fail with the
\* version error of its type-mismatch branch.
ListifyShape ==
    pc = "compare_revision_strings" =>
        LET list1 == listify(ver1)
            list2 == listify(ver2)
        IN  /\ Terminates(ver1) /\ Terminates(ver2)
            /\ Alternates(list1) /\ Alternates(list2)
            /\ EmptyFirstSlot(ver1) /\ EmptyFirstSlot(ver2)
            /\ \A i \in 1..Len(list1) :
                  i <= Len(list2) => list1[i].type = list2[i].type
            /\ result.kind # "DpkgVersionError"

\* a string that starts with a digit against a shorter list that starts with
\* a letter: the empty first slot lines the types up
ListifyShapeWitness ==
    /\ pc = "compare_revision_strings"
    /\ ver1 # <<>> /\ isdigit(ver1[1])
    /\ ver2 # <<>> /\ isalpha(ver2[1])
    /\ Len(listify(ver1)) > Len(listify(ver2))
    /\ listify(ver1)[1] = StrTok(<<>>)
    /\ result = Ok(-1)

\* the tokens written one after the other, the integers in decimal
RECURSIVE ConcatTokens(_)
ConcatTokens(tokens) ==
    IF tokens = <<>> THEN <<>>
    ELSE (IF Head(tokens).type = "str" THEN Head(tokens).s
          ELSE int_to_str(Head(tokens).n)) \o ConcatTokens(Tail(tokens))

\* position i starts a run of two or more digits with a "0"
LeadingZeroAt(s, i) ==
    /\ s[i] = "0"
    /\ (i = 1 \/ ~isdigit(s[i - 1]))
    /\ i < Len(s)
    /\ isdigit(s[i + 1])

\* the string is written the way listify's tokens are: it is empty or ends
\* with a digit, and no run of two or more digits starts with "0"
WrittenAsTokens(s) ==
    /\ s = <<>> \/ isdigit(s[Len(s)])
    /\ \A i \in 1..Len(s) : ~LeadingZeroAt(s, i)

\* C12 as stated: the tokens of listify(r), concatenated with the integers in
\* decimal, give r back, for every revision string r.
ListifyRoundTrip ==
    pc = "listify" => ConcatTokens(result.val) = ver1

\* C12, amended: the tokens of listify(r), concatenated with the integers in
\* decimal, give r back for every revision string r that is empty or ends
\* with a digit and in which no run of two or more digits starts with "0".
ListifyRoundTripWritten ==
    (pc = "listify" /\ WrittenAsTokens(ver1))
        => ConcatTokens(result.val) = ver1

\* "1.2.3" gives six tokens, which concatenate to "1.2.3"
ListifyRoundTripWitness ==
    /\ pc = "listify"
    /\ ver1 = V_1d2d3
    /\ WrittenAsTokens(ver1)
    /\ Len(result.val) = 6
    /\ ConcatTokens(result.val) = ver1

=============================================================================
